---- MODULE Spec2Model ----
(***************************************************************************)
(* AES-GCM-SIV seal/open orchestration of src/aead/aes_gcm_siv.rs.         *)
(*                                                                         *)
(* The orchestration (seal_fallback, seal_aes_avxni, crypt_last_block,     *)
(* open_fallback, open_avx_aesni and the two dispatchers) is translated    *)
(* from the source, one action per step of each function.  The primitives  *)
(* the file only calls (the AES block cipher, the POLYVAL field multiply,  *)
(* the KDF, gcm_siv.rs and the assembly routines) are not in the file;     *)
(* they are modelled from the specification, over real 8-bit bytes and     *)
(* real 16-byte blocks, with a small stand-in for the block permutation    *)
(* and for the field multiplication.                                       *)
(*                                                                         *)
(* Byte sequences are 1-indexed here; Slice(s, a, b) is Rust's s[a..b].    *)
(***************************************************************************)
EXTENDS Integers, Sequences, FiniteSets, TLC

(***************************************************************************)
(* Program constants.                                                      *)
(***************************************************************************)
BLOCK_LEN == 16
TAG_LEN == 16
NONCE_LEN == 12
CALCULATED_TAG_LEN == 16 * 8
HTABLE_LEN == 16 * 6
ENC_KEY_STORAGE_LEN == 32
ENC_MSG_X8_MIN_LEN == 128

(***************************************************************************)
(* Bytes and byte sequences.                                               *)
(***************************************************************************)
Byte == 0..255

\* the sequence a function on 1..n is, as a tuple (evaluated once)
Seq1(f) == f \o << >>

RECURSIVE XorBits(_, _, _)
XorBits(a, b, n) ==
    IF n = 0 THEN 0
    ELSE ((a + b) % 2) + 2 * XorBits(a \div 2, b \div 2, n - 1)

XorTable == Seq1([a \in 1..256 |-> Seq1([b \in 1..256 |-> XorBits(a - 1, b - 1, 8)])])

Xor(a, b) == XorTable[a + 1][b + 1]

Slice(s, a, b) == SubSeq(s, a + 1, b)

Zeros(n) == Seq1([i \in 1..n |-> 0])

AllZero(s) == \A i \in 1..Len(s) : s[i] = 0

XorSeq(x, y) == Seq1([i \in 1..Len(x) |-> Xor(x[i], y[i])])

\* v.to_le_bytes() for an n-byte unsigned integer
RECURSIVE to_le_bytes(_, _)
to_le_bytes(v, n) ==
    IF n = 0 THEN << >>
    ELSE << v % 256 >> \o to_le_bytes(v \div 256, n - 1)

\* u32::from_le_bytes(b).wrapping_add(k).to_le_bytes(), computed bytewise:
\* the carry out of byte 3 is dropped (arithmetic modulo 2^32).
RECURSIVE wrapping_add_le(_, _)
wrapping_add_le(b, k) ==
    IF Len(b) = 0 THEN << >>
    ELSE << (b[1] + k) % 256 >> \o wrapping_add_le(Tail(b), (b[1] + k) \div 256)

\* u64::from_ne_bytes on the (little-endian) host: the integer as four
\* 16-bit limbs, least significant first.
from_ne_bytes(b) == Seq1([k \in 1..4 |-> b[2 * k - 1] + 256 * b[2 * k]])

\* Block::from_u64_native(first, second): the block's 16 bytes in memory
from_u64_native(first, second) ==
    Seq1([i \in 1..BLOCK_LEN |->
            LET w == IF i <= 8 THEN first ELSE second
                j == ((i - 1) % 8) + 1
            IN IF j % 2 = 1 THEN w[(j + 1) \div 2] % 256 ELSE w[j \div 2] \div 256])

(***************************************************************************)
(* Block Cipher Provider and Universal Hash Provider (external).           *)
(***************************************************************************)
get_encryption_key_size(variant) == IF variant = "AES_128" THEN 16 ELSE 32

RECURSIVE WeightedSum(_, _)
WeightedSum(s, i) ==
    IF i = 0 THEN 0 ELSE (s[i] * (2 * i + 1) + WeightedSum(s, i - 1)) % 256

\* aes{128,256}gcmsiv_aes_ks / aes::Key::new: key bytes -> expanded schedule
aes_ks(variant, k) ==
    LET n == get_encryption_key_size(variant)
    IN Seq1([i \in 1..BLOCK_LEN |->
                (3 * k[((i - 1) % n) + 1] + 5 * k[((7 * i) % n) + 1] + i + n) % 256])

\* aes{128,256}gcmsiv_ecb_enc_block / aes::Key::encrypt_block
ecb_enc_block(sched, B) ==
    LET t == (WeightedSum(B, BLOCK_LEN) + WeightedSum(sched, BLOCK_LEN)) % 256
    IN Seq1([i \in 1..BLOCK_LEN |-> (B[i] + sched[i] + (2 * i - 1) * t + 1) % 256])

\* one POLYVAL update: acc := (acc XOR X) * H
polyval_block(H, acc, X) ==
    LET Y == XorSeq(acc, X)
    IN Seq1([i \in 1..BLOCK_LEN |->
                (Y[i] * (2 * H[i] + 1) + Y[(i % BLOCK_LEN) + 1] * H[(i % BLOCK_LEN) + 1]) % 256])

\* aesgcmsiv_polyval_horner(acc, H, data, blocks): folds whole blocks in order
RECURSIVE aesgcmsiv_polyval_horner(_, _, _, _)
aesgcmsiv_polyval_horner(acc, H, data, blocks) ==
    IF blocks = 0 THEN acc
    ELSE aesgcmsiv_polyval_horner(polyval_block(H, acc, Slice(data, 0, BLOCK_LEN)), H,
                                  Slice(data, BLOCK_LEN, Len(data)), blocks - 1)

\* aesgcmsiv_htable6_init: the table of powers of H the 6-block routine uses;
\* its first block is H itself.
aesgcmsiv_htable6_init(H) ==
    Seq1([i \in 1..HTABLE_LEN |->
            (H[((i - 1) % BLOCK_LEN) + 1] * (2 * ((i - 1) \div BLOCK_LEN) + 1)) % 256])

(***************************************************************************)
(* Key derivation (gcm_siv.rs: GcmSivContext::kdf, GcmSivAsmContext::kdf). *)
(* Block j is the little-endian counter j followed by the nonce; the low 8 *)
(* bytes of each encrypted block fill the authentication subkey (2 blocks) *)
(* and then the encryption subkey (2 or 4 blocks).                         *)
(***************************************************************************)
kdf_half(sched, nonce, j) ==
    Slice(ecb_enc_block(sched, to_le_bytes(j, 4) \o nonce), 0, 8)

kdf_auth_key(sched, nonce) == kdf_half(sched, nonce, 0) \o kdf_half(sched, nonce, 1)

kdf_enc_key(sched, nonce, variant) ==
    IF variant = "AES_128"
    THEN kdf_half(sched, nonce, 2) \o kdf_half(sched, nonce, 3)
         \o Zeros(ENC_KEY_STORAGE_LEN - 16)
    ELSE kdf_half(sched, nonce, 2) \o kdf_half(sched, nonce, 3)
         \o kdf_half(sched, nonce, 4) \o kdf_half(sched, nonce, 5)

(***************************************************************************)
(* Tag computation before the final block encryption (gcm_siv.rs:          *)
(* gcm_siv_polyval, gcm_siv_asm_polyval): POLYVAL over the zero-padded     *)
(* AAD, the zero-padded message and the length block, then the nonce XORed *)
(* into the low 12 bytes and the top bit of byte 15 cleared.               *)
(***************************************************************************)
PadToBlock(data) == data \o Zeros((BLOCK_LEN - (Len(data) % BLOCK_LEN)) % BLOCK_LEN)

length_block(aad_len, msg_len) ==
    to_le_bytes(aad_len * 8, 8) \o to_le_bytes(msg_len * 8, 8)

xor_nonce(t, nonce) ==
    Seq1([i \in 1..Len(t) |-> IF i <= Len(nonce) THEN Xor(t[i], nonce[i]) ELSE t[i]])

clear_top_bit(t) == [t EXCEPT ![16] = @ % 128]

gcm_siv_polyval(msg, aad, nonce, H) ==
    LET a == PadToBlock(aad)
        m == PadToBlock(msg)
        h1 == aesgcmsiv_polyval_horner(Zeros(BLOCK_LEN), H, a, Len(a) \div BLOCK_LEN)
        h2 == aesgcmsiv_polyval_horner(h1, H, m, Len(m) \div BLOCK_LEN)
        h3 == polyval_block(H, h2, length_block(Len(aad), Len(msg)))
    IN clear_top_bit(xor_nonce(h3, nonce))

gcm_siv_asm_polyval(nonce, aad, msg, H) == gcm_siv_polyval(msg, aad, nonce, H)

(***************************************************************************)
(* Keystream engine (gcm_siv.rs: gcm_siv_crypt; assembly: enc_msg_x4,      *)
(* enc_msg_x8, dec).  The initial counter block is the seed with the top   *)
(* bit of byte 15 set; block j uses the counter whose low 32 bits          *)
(* (little-endian) are advanced by j, wrapping.                            *)
(***************************************************************************)
initial_counter(seed) == [seed EXCEPT ![16] = IF @ < 128 THEN @ + 128 ELSE @]

counter_block(seed, j) ==
    LET c == initial_counter(seed)
    IN wrapping_add_le(Slice(c, 0, 4), j) \o Slice(c, 4, BLOCK_LEN)

\* keystream(...)[j + 1] is keystream block j
keystream(sched, seed, blocks) ==
    Seq1([j \in 1..blocks |-> ecb_enc_block(sched, counter_block(seed, j - 1))])

\* gcm_siv_crypt(in_out, in_prefix_len, tag, key): output byte i, for
\* i < len - in_prefix_len, is input byte i + in_prefix_len XOR keystream
\* byte i; the last, partial block included.  Bytes past the output keep
\* their value.
gcm_siv_crypt(in_out, in_prefix_len, tag, sched) ==
    LET n == Len(in_out) - in_prefix_len
        ks == keystream(sched, tag, (n + BLOCK_LEN - 1) \div BLOCK_LEN)
    IN Seq1([i \in 1..Len(in_out) |->
                IF i <= n
                THEN Xor(in_out[i + in_prefix_len],
                         ks[((i - 1) \div BLOCK_LEN) + 1][((i - 1) % BLOCK_LEN) + 1])
                ELSE in_out[i]])

\* aes{128,256}gcmsiv_enc_msg_x4 / _x8(input, output, tag, expanded_key,
\* input_len): encrypts input_len / 16 whole blocks in place, `width` blocks
\* per batch; batch b, lane l is block b * width + l.
enc_msg(width, in_out, tag, sched, input_len) ==
    LET blocks == input_len \div BLOCK_LEN
        batches == (blocks + width - 1) \div width
        \* ks[b + 1][l + 1]: the keystream block of batch b, lane l
        ks == Seq1([b \in 1..batches |->
                 Seq1([l \in 1..width |->
                     IF (b - 1) * width + (l - 1) < blocks
                     THEN ecb_enc_block(sched, counter_block(tag, (b - 1) * width + (l - 1)))
                     ELSE Zeros(BLOCK_LEN)])])
    IN Seq1([i \in 1..Len(in_out) |->
                IF i <= blocks * BLOCK_LEN
                THEN LET j == (i - 1) \div BLOCK_LEN
                     IN Xor(in_out[i],
                            ks[(j \div width) + 1][(j % width) + 1][((i - 1) % BLOCK_LEN) + 1])
                ELSE in_out[i]])

aesgcmsiv_enc_msg_x4(in_out, tag, sched, input_len) == enc_msg(4, in_out, tag, sched, input_len)

aesgcmsiv_enc_msg_x8(in_out, tag, sched, input_len) == enc_msg(8, in_out, tag, sched, input_len)

\* aes{128,256}gcmsiv_aes_ks_enc_x1(input, output, expanded_key, enc_key):
\* expands enc_key into *expanded_key and encrypts one block with it.
aesgcmsiv_aes_ks_enc_x1(input, variant, enc_key) ==
    LET sched == aes_ks(variant, enc_key)
    IN [output |-> ecb_enc_block(sched, input), expanded_key |-> sched]

\* aes{128,256}gcmsiv_dec(input, output, calculated_tag, htable,
\* expanded_key, plaintext_len), input = in_out[in_prefix_len..]: the
\* counter seed is the tag that follows the ciphertext; plaintext_len / 16
\* whole blocks are decrypted to the front of in_out and folded, as
\* plaintext, into calculated_tag[0..16]; the rest of calculated_tag is
\* scratch.
aesgcmsiv_dec(in_out, in_prefix_len, calculated_tag, htable, sched, plaintext_len) ==
    LET blocks == plaintext_len \div BLOCK_LEN
        tag == Slice(in_out, in_prefix_len + plaintext_len,
                     in_prefix_len + plaintext_len + TAG_LEN)
        ks == keystream(sched, tag, blocks)
        out == Seq1([i \in 1..Len(in_out) |->
                  IF i <= blocks * BLOCK_LEN
                  THEN Xor(in_out[i + in_prefix_len],
                           ks[((i - 1) \div BLOCK_LEN) + 1][((i - 1) % BLOCK_LEN) + 1])
                  ELSE in_out[i]])
        H == Slice(htable, 0, BLOCK_LEN)
        acc == aesgcmsiv_polyval_horner(Slice(calculated_tag, 0, BLOCK_LEN), H, out, blocks)
        scratch == Seq1([i \in 1..(CALCULATED_TAG_LEN - BLOCK_LEN) |->
                      IF blocks = 0 THEN calculated_tag[i + BLOCK_LEN]
                      ELSE ks[1][((i - 1) % BLOCK_LEN) + 1]])
    IN [in_out |-> out, calculated_tag |-> acc \o scratch]

(***************************************************************************)
(* The Key (gcm_siv::Key) and its construction.                            *)
(***************************************************************************)
None == << >>

\* gcm_siv::Key::new, reached through init / init_128 / init_256: the
\* variant, the key material and, on the accelerated path only, the
\* precomputed expanded key schedule.
Key_new(key_bytes, variant, cpu_features) ==
    [variant |-> variant,
     key |-> key_bytes,
     aes_asm_key |-> IF cpu_features = "AVX_AESNI" THEN aes_ks(variant, key_bytes)
                     ELSE None]

\* GcmSivContext::kdf(&mut auth_key, &mut enc_key, variant, &nonce, &key)
GcmSivContext_kdf(k, nonce) ==
    LET sched == aes_ks(k.variant, k.key)
    IN [auth_key |-> kdf_auth_key(sched, nonce),
        enc_key |-> kdf_enc_key(sched, nonce, k.variant)]

\* GcmSivAsmContext::kdf(&nonce, &asm_key, &mut auth_key, &mut enc_key):
\* encrypts with the key schedule held in the Key.
GcmSivAsmContext_kdf(k, nonce) ==
    [auth_key |-> kdf_auth_key(k.aes_asm_key, nonce),
     enc_key |-> kdf_enc_key(k.aes_asm_key, nonce, k.variant)]

(***************************************************************************)
(* Integer conversions and bit operations of the source.                   *)
(***************************************************************************)
\* x as libc::c_uint / x as u32: x modulo 2^32
as_u32(x) == (x % 65536) + 65536 * ((x \div 65536) % 65536)

\* b | 0x80
or_0x80(b) == IF b < 128 THEN b + 128 ELSE b

\* b & 0x7f
and_0x7f(b) == b % 128

(***************************************************************************)
(* usize and u64 values beyond the integers at hand: four 16-bit limbs,    *)
(* least significant first (64-bit target, where the accelerated path is   *)
(* built).                                                                 *)
(***************************************************************************)
LIMB == 256 * 256

\* a + k, wrapping, for 0 <= k < LIMB * LIMB \div 2
RECURSIVE usize_add(_, _)
usize_add(a, k) ==
    IF Len(a) = 0 THEN << >>
    ELSE << (a[1] + (k % LIMB)) % LIMB >>
         \o usize_add(Tail(a), (k \div LIMB) + ((a[1] + (k % LIMB)) \div LIMB))

\* a - k for 0 <= k < LIMB and a >= k
RECURSIVE usize_sub(_, _)
usize_sub(a, k) ==
    IF Len(a) = 0 THEN << >>
    ELSE IF a[1] >= k THEN << a[1] - k >> \o Tail(a)
    ELSE << (a[1] + LIMB) - k >> \o usize_sub(Tail(a), 1)

\* a * m, wrapping, for 0 <= m < LIMB, carry the carry into this limb
RECURSIVE usize_mul(_, _, _)
usize_mul(a, m, carry) ==
    IF Len(a) = 0 THEN << >>
    ELSE << (a[1] * m + carry) % LIMB >>
         \o usize_mul(Tail(a), m, (a[1] * m + carry) \div LIMB)

\* a % BLOCK_LEN: BLOCK_LEN divides LIMB
usize_rem_block(a) == a[1] % BLOCK_LEN

\* a <= b
usize_le(a, b) ==
    \/ a = b
    \/ \E i \in 1..Len(a) : a[i] < b[i] /\ \A j \in (i + 1)..Len(a) : a[j] = b[j]

\* x as libc::c_uint: the low 32 bits
as_c_uint(a) == << a[1], a[2] >>

\* a c_uint read back as a length
c_uint_value(u) == << u[1], u[2], 0, 0 >>

\* super::max_input_len(block_len, overhead_blocks_per_nonce):
\* ((1u64 << 32) - overhead_blocks_per_nonce) * block_len
max_input_len(block_len, overhead_blocks_per_nonce) ==
    usize_mul(usize_sub(<< 0, 0, 1, 0 >>, overhead_blocks_per_nonce), block_len, 0)

AES_GCM_MAX_INPUT_LEN == max_input_len(BLOCK_LEN, 2)

(***************************************************************************)
(* A call's frame: its arguments and its locals, each local the storage it *)
(* occupies (what the memory holds, also after the call has returned).     *)
(***************************************************************************)
Frame(nonce, aad, in_prefix_len, in_out) ==
    [nonce |-> nonce, aad |-> aad, in_prefix_len |-> in_prefix_len, in_out |-> in_out,
     auth_key_bytes |-> << >>,   \* [u8; TAG_LEN] of the portable path
     enc_key_bytes |-> << >>,    \* [u8; 32] / Encryption_Key
     auth_key |-> << >>,         \* Block / Auth_Key
     enc_key |-> << >>,          \* aes::Key / the local AES_ASM_KEY expanded_key
     polyval |-> << >>,          \* the tag value before the block encryption
     tag |-> << >>,              \* tag / out_tag / the received tag
     seed |-> << >>,             \* what the keystream engine was handed
     hashed |-> << >>,           \* the message bytes folded into the tag
     calculated_tag |-> << >>,   \* CalculatedTag
     htable |-> << >>,           \* HTable
     counter |-> << >>,          \* Counter of crypt_last_block
     scratch |-> << >>,
     ret |-> << >>]

\* impl Drop for CalculatedTag / impl Drop for HTable
drop_zeroize(bytes) == Seq1([i \in 1..Len(bytes) |-> 0])

\* Dropping Auth_Key, Encryption_Key, AES_ASM_KEY, aes::Key (gcm_siv.rs,
\* aes.rs): zeroized on drop.
drop_subkey(bytes) == Seq1([i \in 1..Len(bytes) |-> 0])

(***************************************************************************)
(* crypt_last_block                                                        *)
(***************************************************************************)
\* for i in last_bytes_offset..(last_bytes_offset + last_bytes_len):
\*     in_out[i - in_prefix_len] = in_out[i] ^ counter.counter[i - last_bytes_offset]
\* run one iteration at a time, each reading the buffer the earlier ones wrote.
\* the loop run from the last tail byte down to the first: a write at
\* i - in_prefix_len lands on a byte an iteration still to come reads
RECURSIVE last_block_loop_descending(_, _, _, _, _, _)
last_block_loop_descending(in_out, counter, i, stop, last_bytes_offset, in_prefix_len) ==
    IF i >= stop THEN in_out
    ELSE last_block_loop_descending(
            [in_out EXCEPT ![((stop - 1) - in_prefix_len) + 1] =
                Xor(in_out[(stop - 1) + 1], counter[((stop - 1) - last_bytes_offset) + 1])],
            counter, i, stop - 1, last_bytes_offset, in_prefix_len)

RECURSIVE last_block_loop(_, _, _, _, _, _)
last_block_loop(in_out, counter, i, stop, last_bytes_offset, in_prefix_len) ==
    IF i >= stop THEN in_out
    ELSE last_block_loop(
            [in_out EXCEPT ![(i - in_prefix_len) + 1] =
                Xor(in_out[i + 1], counter[(i - last_bytes_offset) + 1])],
            counter, i + 1, stop, last_bytes_offset, in_prefix_len)

\* the counter advanced as a 64-bit integer: a carry out of byte 3 runs
\* on into byte 4
last_block_counter_u64(tag, in_out_len) ==
    LET counter == [tag EXCEPT ![16] = or_0x80(@)]
        last_val == wrapping_add_le(Slice(counter, 0, 8), as_u32(in_out_len \div BLOCK_LEN))
    IN last_val \o Slice(counter, 8, BLOCK_LEN)

\* the counter block crypt_last_block encrypts
last_block_counter(tag, in_out_len) ==
    LET counter == [tag EXCEPT ![16] = or_0x80(@)]
        last_val == wrapping_add_le(Slice(counter, 0, 4), as_u32(in_out_len \div BLOCK_LEN))
    IN last_val \o Slice(counter, 4, BLOCK_LEN)

\* crypt_last_block reading the tail where it writes it, the prefix
\* offset left out of last_bytes_offset
crypt_last_block_no_prefix(tag, in_out, expanded_key, in_out_len, in_prefix_len) ==
    LET counter == ecb_enc_block(expanded_key, last_block_counter(tag, in_out_len))
        last_bytes_offset == in_out_len - (in_out_len % BLOCK_LEN)
        last_bytes_len == in_out_len % BLOCK_LEN
    IN [in_out |-> last_block_loop(in_out, counter, last_bytes_offset,
                                   last_bytes_offset + last_bytes_len,
                                   last_bytes_offset, 0),
        counter |-> counter]

crypt_last_block(tag, in_out, expanded_key, in_out_len, in_prefix_len) ==
    LET counter == ecb_enc_block(expanded_key, last_block_counter(tag, in_out_len))
        last_bytes_offset == (in_out_len - (in_out_len % BLOCK_LEN)) + in_prefix_len
        last_bytes_len == in_out_len % BLOCK_LEN
    IN [in_out |-> last_block_loop(in_out, counter, last_bytes_offset,
                                   last_bytes_offset + last_bytes_len,
                                   last_bytes_offset, in_prefix_len),
        \* Counter has no Drop: its storage keeps the keystream block
        counter |-> counter]

(***************************************************************************)
(* seal_fallback, step by step.                                            *)
(***************************************************************************)
seal_fallback_kdf(l, k) ==
    LET d == GcmSivContext_kdf(k, l.nonce)
        first == Slice(d.auth_key, 0, TAG_LEN \div 2)
        second == Slice(d.auth_key, TAG_LEN \div 2, TAG_LEN)
    IN [l EXCEPT !.auth_key_bytes = d.auth_key,
                 !.enc_key_bytes = d.enc_key,
                 !.auth_key = from_u64_native(from_ne_bytes(first), from_ne_bytes(second)),
                 !.enc_key = aes_ks(k.variant,
                                    Slice(d.enc_key, 0, get_encryption_key_size(k.variant)))]

seal_fallback_polyval(l) ==
    [l EXCEPT !.polyval = gcm_siv_polyval(l.in_out, l.aad, l.nonce, l.auth_key),
              !.hashed = l.in_out]

seal_fallback_encrypt_tag(l) ==
    [l EXCEPT !.tag = ecb_enc_block(l.enc_key, l.polyval)]

\* seal_fallback handing gcm_siv_crypt the tag value it had before
\* encrypt_block
seal_fallback_crypt_pre_final(l) ==
    [l EXCEPT !.seed = l.polyval,
              !.in_out = gcm_siv_crypt(l.in_out, 0, l.polyval, l.enc_key)]

seal_fallback_crypt(l) ==
    [l EXCEPT !.seed = l.tag,
              !.in_out = gcm_siv_crypt(l.in_out, 0, l.tag, l.enc_key)]

\* return Tag(tag): the locals go out of scope; the two byte arrays are
\* plain arrays and keep their contents.
seal_fallback_return(l) ==
    [l EXCEPT !.ret = l.tag,
              !.auth_key = drop_subkey(@),
              !.enc_key = drop_subkey(@)]

seal_fallback(k, nonce, aad, in_out) ==
    seal_fallback_return(seal_fallback_crypt(seal_fallback_encrypt_tag(
        seal_fallback_polyval(seal_fallback_kdf(Frame(nonce, aad, 0, in_out), k)))))

(***************************************************************************)
(* seal_aes_avxni, step by step.  The steps that touch the Key take it and *)
(* give back the Key they leave.                                           *)
(***************************************************************************)
seal_aes_avxni_kdf(l, k) ==
    LET d == GcmSivAsmContext_kdf(k, l.nonce)
    IN [l EXCEPT !.auth_key = d.auth_key, !.enc_key_bytes = d.enc_key]

seal_aes_avxni_polyval(l) ==
    [l EXCEPT !.polyval = gcm_siv_asm_polyval(l.nonce, l.aad, l.in_out, l.auth_key),
              !.tag = gcm_siv_asm_polyval(l.nonce, l.aad, l.in_out, l.auth_key),
              !.hashed = l.in_out]

\* aes{128,256}gcmsiv_aes_ks_enc_x1(&out_tag, &mut out_tag, aes_asm_key, &enc_key)
\* with aes_asm_key = asm_key.aes_asm_key: the schedule expanded from the
\* derived encryption subkey is written into the Key.
seal_aes_avxni_ks_enc_x1(l, k) ==
    LET r == aesgcmsiv_aes_ks_enc_x1(l.tag, k.variant, l.enc_key_bytes)
    IN [l |-> [l EXCEPT !.tag = r.output],
        k |-> [k EXCEPT !.aes_asm_key = r.expanded_key]]

seal_aes_avxni_enc_msg(l, k) ==
    LET whole_in_out_len == Len(l.in_out) - (Len(l.in_out) % BLOCK_LEN)
    IN [l EXCEPT !.seed = l.tag,
                 !.in_out =
                    IF Len(l.in_out) < ENC_MSG_X8_MIN_LEN
                    THEN aesgcmsiv_enc_msg_x4(l.in_out, l.tag, k.aes_asm_key,
                                              as_u32(whole_in_out_len))
                    ELSE aesgcmsiv_enc_msg_x8(l.in_out, l.tag, k.aes_asm_key,
                                              as_u32(whole_in_out_len))]

seal_aes_avxni_last_block(l, k) ==
    IF Len(l.in_out) % BLOCK_LEN # 0
    THEN LET r == crypt_last_block(l.tag, l.in_out, k.aes_asm_key, Len(l.in_out), 0)
         IN [l EXCEPT !.in_out = r.in_out, !.counter = r.counter]
    ELSE l

seal_aes_avxni_return(l) ==
    [l EXCEPT !.ret = l.tag,
              !.auth_key = drop_subkey(@),
              !.enc_key_bytes = drop_subkey(@)]

seal_aes_avxni(k, nonce, aad, in_out) ==
    LET l1 == seal_aes_avxni_polyval(seal_aes_avxni_kdf(Frame(nonce, aad, 0, in_out), k))
        r2 == seal_aes_avxni_ks_enc_x1(l1, k)
        l3 == seal_aes_avxni_enc_msg(r2.l, r2.k)
        l4 == seal_aes_avxni_last_block(l3, r2.k)
    IN [l |-> seal_aes_avxni_return(l4), k |-> r2.k]

(***************************************************************************)
(* open_fallback, step by step.  well_formed is what the slice and length  *)
(* arithmetic of both open functions needs in order not to panic.          *)
(***************************************************************************)
well_formed(in_prefix_len, in_out) == Len(in_out) >= TAG_LEN + in_prefix_len

open_fallback_tag(l) ==
    LET in_out_len == Len(l.in_out)
        tag == Slice(l.in_out, in_out_len - TAG_LEN, in_out_len)
        tag_first_block == Slice(tag, 0, TAG_LEN \div 2)
        tag_second_block == Slice(tag, TAG_LEN \div 2, TAG_LEN)
    IN [l EXCEPT !.tag = from_u64_native(from_ne_bytes(tag_first_block),
                                         from_ne_bytes(tag_second_block))]

open_fallback_kdf(l, k) == seal_fallback_kdf(l, k)

open_fallback_crypt(l) ==
    LET in_out_len == Len(l.in_out)
    IN [l EXCEPT !.seed = l.tag,
                 !.in_out = gcm_siv_crypt(Slice(l.in_out, 0, in_out_len - TAG_LEN),
                                          l.in_prefix_len, l.tag, l.enc_key)
                            \o Slice(l.in_out, in_out_len - TAG_LEN, in_out_len)]

\* open_fallback hashing the bytes at the input offset, where ciphertext
\* still lies, instead of the bytes gcm_siv_crypt wrote at the front
open_fallback_polyval_at_input(l) ==
    LET msg == Slice(l.in_out, l.in_prefix_len, Len(l.in_out) - TAG_LEN)
    IN [l EXCEPT !.polyval = gcm_siv_polyval(msg, l.aad, l.nonce, l.auth_key),
                 !.hashed = msg]

open_fallback_polyval(l) ==
    LET msg == Slice(l.in_out, 0, Len(l.in_out) - TAG_LEN - l.in_prefix_len)
    IN [l EXCEPT !.polyval = gcm_siv_polyval(msg, l.aad, l.nonce, l.auth_key),
                 !.hashed = msg]

open_fallback_return(l) ==
    [l EXCEPT !.ret = ecb_enc_block(l.enc_key, l.polyval),
              !.auth_key = drop_subkey(@),
              !.enc_key = drop_subkey(@)]

open_fallback(k, nonce, aad, in_prefix_len, in_out) ==
    open_fallback_return(open_fallback_polyval(open_fallback_crypt(
        open_fallback_kdf(open_fallback_tag(Frame(nonce, aad, in_prefix_len, in_out)), k))))

(***************************************************************************)
(* open_avx_aesni, step by step.                                           *)
(***************************************************************************)
\* aesgcmsiv_polyval_horner(&mut calculated_tag, &auth_key, data, blocks):
\* the accumulator is the first block of CalculatedTag
horner_into(calculated_tag, H, data, blocks) ==
    aesgcmsiv_polyval_horner(Slice(calculated_tag, 0, BLOCK_LEN), H, data, blocks)
    \o Slice(calculated_tag, BLOCK_LEN, Len(calculated_tag))

\* let mut scratch = [0u8; BLOCK_LEN]; scratch[..tail.len()].copy_from_slice(tail)
scratch_block(tail) == tail \o Zeros(BLOCK_LEN - Len(tail))

open_avx_aesni_kdf(l, k) ==
    LET d == GcmSivAsmContext_kdf(k, l.nonce)
    IN [l EXCEPT !.auth_key = d.auth_key, !.enc_key_bytes = d.enc_key]

\* aes{128,256}gcmsiv_aes_ks(&enc_key, &mut expanded_key): a local schedule
open_avx_aesni_aes_ks(l, k) ==
    [l EXCEPT !.enc_key = aes_ks(k.variant,
                                 Slice(l.enc_key_bytes, 0, get_encryption_key_size(k.variant)))]

open_avx_aesni_aad(l) ==
    LET aad_len == Len(l.aad)
        c0 == Zeros(CALCULATED_TAG_LEN)
        c1 == horner_into(c0, l.auth_key, l.aad, as_u32(aad_len \div BLOCK_LEN))
        scratch == scratch_block(Slice(l.aad, aad_len - (aad_len % BLOCK_LEN), aad_len))
    IN IF (aad_len % BLOCK_LEN) # 0
       THEN [l EXCEPT !.calculated_tag = horner_into(c1, l.auth_key, scratch, 1),
                      !.scratch = scratch]
       ELSE [l EXCEPT !.calculated_tag = c1, !.scratch = Zeros(BLOCK_LEN)]

open_avx_aesni_htable(l) ==
    [l EXCEPT !.htable = aesgcmsiv_htable6_init(l.auth_key)]

open_avx_aesni_dec(l) ==
    LET in_out_len == Len(l.in_out) - TAG_LEN - l.in_prefix_len
        r == aesgcmsiv_dec(l.in_out, l.in_prefix_len, l.calculated_tag, l.htable,
                           l.enc_key, as_u32(in_out_len))
    IN [l EXCEPT !.seed = Slice(l.in_out, l.in_prefix_len + in_out_len,
                                l.in_prefix_len + in_out_len + TAG_LEN),
                 !.in_out = r.in_out,
                 !.calculated_tag = r.calculated_tag,
                 !.hashed = Slice(r.in_out, 0, in_out_len - (in_out_len % BLOCK_LEN))]

open_avx_aesni_last_block(l) ==
    LET in_out_len == Len(l.in_out) - TAG_LEN - l.in_prefix_len
        tag == Slice(l.in_out, l.in_prefix_len + in_out_len, Len(l.in_out))
        r == crypt_last_block(tag, l.in_out, l.enc_key, in_out_len, l.in_prefix_len)
        left == Slice(r.in_out, in_out_len - (in_out_len % BLOCK_LEN), in_out_len)
        scratch == scratch_block(left)
    IN IF in_out_len % BLOCK_LEN # 0
       THEN [l EXCEPT !.tag = tag,
                      !.in_out = r.in_out,
                      !.counter = r.counter,
                      !.scratch = scratch,
                      !.calculated_tag = horner_into(l.calculated_tag, l.auth_key, scratch, 1),
                      !.hashed = l.hashed \o left]
       ELSE l

open_avx_aesni_finish(l) ==
    LET in_out_len == Len(l.in_out) - TAG_LEN - l.in_prefix_len
        c1 == horner_into(l.calculated_tag, l.auth_key,
                          length_block(Len(l.aad), in_out_len), 1)
        c2 == Seq1([i \in 1..Len(c1) |->
                  IF i <= Len(l.nonce) THEN Xor(c1[i], l.nonce[i]) ELSE c1[i]])
        c3 == [c2 EXCEPT ![16] = and_0x7f(@)]
        c4 == ecb_enc_block(l.enc_key, Slice(c3, 0, BLOCK_LEN))
    IN [l EXCEPT !.polyval = Slice(c3, 0, BLOCK_LEN),
                 !.ret = c4,
                 !.calculated_tag = drop_zeroize(@),
                 !.htable = drop_zeroize(@),
                 !.auth_key = drop_subkey(@),
                 !.enc_key_bytes = drop_subkey(@),
                 !.enc_key = drop_subkey(@)]

open_avx_aesni(k, nonce, aad, in_prefix_len, in_out) ==
    LET l2 == open_avx_aesni_aes_ks(
                 open_avx_aesni_kdf(Frame(nonce, aad, in_prefix_len, in_out), k), k)
        l5 == open_avx_aesni_dec(open_avx_aesni_htable(open_avx_aesni_aad(l2)))
    IN open_avx_aesni_finish(open_avx_aesni_last_block(l5))

(***************************************************************************)
(* Bounds and the inputs drawn from them.                                  *)
(***************************************************************************)
MaxCalls == 2

Callers == {1, 2}
Seeds == {1}
Variants == {"AES_128", "AES_256"}
Implementations == {"FALLBACK", "AVX_AESNI"}
MsgLens == {0, 11, 16, 37, ENC_MSG_X8_MIN_LEN - 1, ENC_MSG_X8_MIN_LEN, ENC_MSG_X8_MIN_LEN + 5}
AadLens == {0, 20}
Prefixes == {0, 3, BLOCK_LEN, BLOCK_LEN + 5}
Tampers == {"none", "flip_ciphertext", "flip_tag", "max_counter", "truncate"}
ConcMsgLens == {5, 21}

KeyBytes(variant, seed) ==
    [i \in 1..get_encryption_key_size(variant) |-> (37 * seed + 11 * i) % 256]

NonceBytes(seed, c) == [i \in 1..NONCE_LEN |-> (17 * seed + 29 * c + 7 * i) % 256]

Pattern(len, seed) == Seq1([i \in 1..len |-> (13 * seed + 31 * i + 5) % 256])

\* what a caller hands to aes_gcm_siv_open: `prefix` bytes in front of the wire bytes,
\* which are taken as they are, with one bit flipped, with the four low
\* counter bytes of the tag at their maximum, or cut short
Tampered(bytes, how) ==
    CASE how = "none" -> bytes
      [] how = "flip_ciphertext" -> [bytes EXCEPT ![1] = Xor(@, 1)]
      [] how = "flip_tag" -> [bytes EXCEPT ![Len(bytes)] = Xor(@, 128)]
      [] how = "max_counter" ->
            Seq1([i \in 1..Len(bytes) |->
                    IF Len(bytes) - TAG_LEN < i /\ i <= Len(bytes) - TAG_LEN + 4
                    THEN 255 ELSE bytes[i]])
      [] how = "truncate" -> Slice(bytes, Len(bytes) - (TAG_LEN - 1), Len(bytes))

(***************************************************************************)
(* State.                                                                  *)
(***************************************************************************)
VARIABLES
    conc,     \* whether two callers share the Key (constant over a run)
    impl,     \* gcm_siv::detect_implementation(cpu_features) of the host
    key,      \* the Key all calls use
    key0,     \* the Key as its construction left it
    nonce,    \* nonce[c]: the nonce caller c uses
    aad,      \* the associated data
    msg,      \* msg[c]: the plaintext caller c seals
    wire,     \* wire[c]: the ciphertext and tag caller c last assembled
    calls,    \* calls started so far
    pc,       \* pc[c]: where caller c's call stands
    op,       \* op[c]: "seal" or "open"
    loc,      \* loc[c]: the frame of caller c's call
    entry,    \* entry[c]: the buffer and the Key when the call was entered
    hist,     \* hist[c]: what the call has done so far, in order
    length    \* the lengths of a call on a buffer too long to hold byte by byte

vars == << conc, impl, key, key0, nonce, aad, msg, wire, calls, pc, op, loc, entry, hist,
           length >>

NoEntry == [in_out |-> << >>, key |-> None, tamper |-> "none", sealed |-> FALSE]

InitWith(concurrent, lens, aadlens) ==
    /\ conc = concurrent
    /\ impl \in Implementations
    /\ \E variant \in Variants, seed \in Seeds :
          /\ key = Key_new(KeyBytes(variant, seed), variant, impl)
          /\ nonce = [c \in Callers |-> NonceBytes(seed, c)]
          /\ \E n \in lens :
                /\ msg = [c \in Callers |-> Pattern(n, seed + c)]
                /\ wire = [c \in Callers |->
                             [bytes |-> Pattern(n + TAG_LEN, seed + c + 7),
                              sealed |-> FALSE]]
    /\ key0 = key
    /\ \E n \in aadlens : aad = Pattern(n, 3)
    /\ calls = 0
    /\ pc = [c \in Callers |-> "idle"]
    /\ op = [c \in Callers |-> "none"]
    /\ loc = [c \in Callers |-> Frame(<< >>, << >>, 0, << >>)]
    /\ entry = [c \in Callers |-> NoEntry]
    /\ hist = [c \in Callers |-> << >>]

\* no call on lengths alone has been made
NoLength == [op |-> "none", in_out_len |-> << >>, in_prefix_len |-> 0,
             true_len |-> << >>, handed |-> << >>]

Init == InitWith(FALSE, MsgLens, AadLens) /\ length = NoLength

InitConc == InitWith(TRUE, ConcMsgLens, {7}) /\ length = NoLength

Active == IF conc THEN Callers ELSE {1}

Idle(c) == pc[c] \in {"idle", "done"}

\* a step of caller c: its frame, its position and its history change
StepFrame(c, l, next, events) ==
    /\ loc' = [loc EXCEPT ![c] = l]
    /\ pc' = [pc EXCEPT ![c] = next]
    /\ hist' = [hist EXCEPT ![c] = @ \o events]
    /\ UNCHANGED << conc, impl, key0, nonce, aad, msg, calls, op, entry, length >>

\* a step that leaves the Key and the caller's assembled output alone
Step(c, l, next, events) ==
    /\ StepFrame(c, l, next, events)
    /\ UNCHANGED << key, wire >>

\* the caller keeps the ciphertext followed by the tag seal returned
Assemble(c, l) == wire' = [wire EXCEPT ![c] = [bytes |-> l.in_out \o l.ret, sealed |-> TRUE]]

(***************************************************************************)
(* Key construction: init / init_128 / init_256.                           *)
(***************************************************************************)
init ==
    /\ \A c \in Callers : Idle(c)
    /\ key' = Key_new(key0.key, key0.variant, impl)
    /\ key0' = key'
    /\ UNCHANGED << conc, impl, nonce, aad, msg, wire, calls, pc, op, loc, entry, hist, length >>

(***************************************************************************)
(* aes_gcm_siv_seal and aes_gcm_siv_open: the dispatch on the              *)
(* implementation.                                                         *)
(***************************************************************************)
aes_gcm_siv_seal(c) ==
    /\ Idle(c)
    /\ calls < MaxCalls
    /\ calls' = calls + 1
    /\ op' = [op EXCEPT ![c] = "seal"]
    /\ loc' = [loc EXCEPT ![c] = Frame(nonce[c], aad, 0, msg[c])]
    /\ entry' = [entry EXCEPT ![c] = [in_out |-> msg[c], key |-> key,
                                      tamper |-> "none", sealed |-> FALSE]]
    /\ hist' = [hist EXCEPT ![c] = << >>]
    /\ pc' = [pc EXCEPT ![c] = IF impl = "FALLBACK" THEN "sf_kdf" ELSE "sa_kdf"]
    /\ UNCHANGED << conc, impl, key, key0, nonce, aad, msg, wire, length >>

aes_gcm_siv_open(c) ==
    /\ Idle(c)
    /\ calls < MaxCalls
    /\ calls' = calls + 1
    /\ \E in_prefix_len \in (IF conc THEN {0} ELSE Prefixes),
          how \in (IF conc THEN {"none"} ELSE Tampers) :
          LET in_out == Pattern(in_prefix_len, 11) \o Tampered(wire[c].bytes, how)
          IN /\ loc' = [loc EXCEPT ![c] = Frame(nonce[c], aad, in_prefix_len, in_out)]
             /\ entry' = [entry EXCEPT ![c] = [in_out |-> in_out, key |-> key,
                                               tamper |-> how,
                                               sealed |-> wire[c].sealed]]
    /\ op' = [op EXCEPT ![c] = "open"]
    /\ hist' = [hist EXCEPT ![c] = << >>]
    /\ pc' = [pc EXCEPT ![c] = IF impl = "FALLBACK" THEN "of_tag" ELSE "oa_kdf"]
    /\ UNCHANGED << conc, impl, key, key0, nonce, aad, msg, wire, length >>

(***************************************************************************)
(* seal_fallback                                                           *)
(***************************************************************************)
SealFallbackKdf(c) ==
    /\ pc[c] = "sf_kdf"
    /\ Step(c, seal_fallback_kdf(loc[c], key), "sf_polyval", << "kdf" >>)

SealFallbackPolyval(c) ==
    /\ pc[c] = "sf_polyval"
    /\ Step(c, seal_fallback_polyval(loc[c]), "sf_encrypt_tag", << "hash_aad", "hash_msg" >>)

SealFallbackEncryptTag(c) ==
    /\ pc[c] = "sf_encrypt_tag"
    /\ Step(c, seal_fallback_encrypt_tag(loc[c]), "sf_crypt", << "tag_final" >>)

SealFallbackCrypt(c) ==
    /\ pc[c] = "sf_crypt"
    /\ Step(c, seal_fallback_crypt(loc[c]), "sf_return", << "crypt" >>)

SealFallbackReturn(c) ==
    /\ pc[c] = "sf_return"
    /\ StepFrame(c, seal_fallback_return(loc[c]), "done", << >>)
    /\ Assemble(c, seal_fallback_return(loc[c]))
    /\ UNCHANGED key

(***************************************************************************)
(* seal_aes_avxni                                                          *)
(***************************************************************************)
SealAvxKdf(c) ==
    /\ pc[c] = "sa_kdf"
    /\ IF key.aes_asm_key = None
       THEN Step(c, loc[c], "panicked", << >>)   \* expect("Missing AES ASM KEY")
       ELSE Step(c, seal_aes_avxni_kdf(loc[c], key), "sa_polyval", << "kdf" >>)

SealAvxPolyval(c) ==
    /\ pc[c] = "sa_polyval"
    /\ Step(c, seal_aes_avxni_polyval(loc[c]), "sa_ks_enc_x1", << "hash_aad", "hash_msg" >>)

SealAvxKsEncX1(c) ==
    /\ pc[c] = "sa_ks_enc_x1"
    /\ StepFrame(c, seal_aes_avxni_ks_enc_x1(loc[c], key).l, "sa_enc_msg", << "tag_final" >>)
    /\ key' = seal_aes_avxni_ks_enc_x1(loc[c], key).k
    /\ UNCHANGED wire

SealAvxEncMsg(c) ==
    /\ pc[c] = "sa_enc_msg"
    /\ Step(c, seal_aes_avxni_enc_msg(loc[c], key), "sa_last_block", << "crypt" >>)

SealAvxLastBlock(c) ==
    /\ pc[c] = "sa_last_block"
    /\ Step(c, seal_aes_avxni_last_block(loc[c], key), "sa_return",
            IF Len(loc[c].in_out) % BLOCK_LEN # 0 THEN << "crypt" >> ELSE << >>)

SealAvxReturn(c) ==
    /\ pc[c] = "sa_return"
    /\ StepFrame(c, seal_aes_avxni_return(loc[c]), "done", << >>)
    /\ Assemble(c, seal_aes_avxni_return(loc[c]))
    /\ UNCHANGED key

(***************************************************************************)
(* open_fallback                                                           *)
(***************************************************************************)
OpenFallbackTag(c) ==
    /\ pc[c] = "of_tag"
    /\ IF Len(loc[c].in_out) < TAG_LEN
       THEN Step(c, loc[c], "panicked", << >>)   \* in_out.len() - TAG_LEN
       ELSE Step(c, open_fallback_tag(loc[c]), "of_kdf", << >>)

OpenFallbackKdf(c) ==
    /\ pc[c] = "of_kdf"
    /\ Step(c, open_fallback_kdf(loc[c], key), "of_crypt", << "kdf" >>)

\* open_fallback with the slice bound taken strictly: a buffer that holds
\* the prefix and the tag and nothing else is refused
OpenFallbackCrypt_strict(c) ==
    /\ pc[c] = "of_crypt"
    /\ IF Len(loc[c].in_out) <= TAG_LEN + loc[c].in_prefix_len
       THEN Step(c, loc[c], "panicked", << >>)
       ELSE Step(c, open_fallback_crypt(loc[c]), "of_polyval", << "crypt" >>)

OpenFallbackCrypt(c) ==
    /\ pc[c] = "of_crypt"
    /\ IF ~well_formed(loc[c].in_prefix_len, loc[c].in_out)
       THEN Step(c, loc[c], "panicked", << >>)   \* in_out_len - TAG_LEN - in_prefix_len
       ELSE Step(c, open_fallback_crypt(loc[c]), "of_polyval", << "crypt" >>)

OpenFallbackPolyval(c) ==
    /\ pc[c] = "of_polyval"
    /\ Step(c, open_fallback_polyval(loc[c]), "of_return", << "hash_aad", "hash_msg" >>)

OpenFallbackReturn(c) ==
    /\ pc[c] = "of_return"
    /\ Step(c, open_fallback_return(loc[c]), "done", << "tag_final" >>)

(***************************************************************************)
(* open_avx_aesni                                                          *)
(***************************************************************************)
OpenAvxKdf(c) ==
    /\ pc[c] = "oa_kdf"
    /\ Step(c, open_avx_aesni_kdf(loc[c], key), "oa_aes_ks", << "kdf" >>)

OpenAvxAesKs(c) ==
    /\ pc[c] = "oa_aes_ks"
    /\ Step(c, open_avx_aesni_aes_ks(loc[c], key), "oa_aad", << >>)

OpenAvxAad(c) ==
    /\ pc[c] = "oa_aad"
    /\ Step(c, open_avx_aesni_aad(loc[c]), "oa_htable", << "hash_aad" >>)

OpenAvxHtable(c) ==
    /\ pc[c] = "oa_htable"
    /\ Step(c, open_avx_aesni_htable(loc[c]), "oa_dec", << >>)

\* in_out.len() - TAG_LEN - in_prefix_len on a buffer too short for it: a
\* panic where overflow is checked; where it wraps, the slice
\* in_out[in_prefix_len..] panics or the routine is handed a length the
\* buffer does not have.
OpenAvxDec(c) ==
    /\ pc[c] = "oa_dec"
    /\ IF ~well_formed(loc[c].in_prefix_len, loc[c].in_out)
       THEN \E outcome \in (IF loc[c].in_prefix_len <= Len(loc[c].in_out)
                            THEN {"panicked", "out_of_bounds"} ELSE {"panicked"}) :
               Step(c, loc[c], outcome, << >>)
       ELSE Step(c, open_avx_aesni_dec(loc[c]), "oa_last_block", << "crypt", "hash_msg" >>)

OpenAvxLastBlock(c) ==
    /\ pc[c] = "oa_last_block"
    /\ Step(c, open_avx_aesni_last_block(loc[c]), "oa_finish",
            IF (Len(loc[c].in_out) - TAG_LEN - loc[c].in_prefix_len) % BLOCK_LEN # 0
            THEN << "crypt", "hash_msg" >> ELSE << >>)

OpenAvxFinish(c) ==
    /\ pc[c] = "oa_finish"
    /\ Step(c, open_avx_aesni_finish(loc[c]), "done", << "tag_final" >>)

(***************************************************************************)
(* The specifications: one caller, and two callers sharing the Key.        *)
(***************************************************************************)
Next ==
    \/ init
    \/ \E c \in Active : aes_gcm_siv_seal(c)
    \/ \E c \in Active : aes_gcm_siv_open(c)
    \/ \E c \in Active : SealFallbackKdf(c)
    \/ \E c \in Active : SealFallbackPolyval(c)
    \/ \E c \in Active : SealFallbackEncryptTag(c)
    \/ \E c \in Active : SealFallbackCrypt(c)
    \/ \E c \in Active : SealFallbackReturn(c)
    \/ \E c \in Active : SealAvxKdf(c)
    \/ \E c \in Active : SealAvxPolyval(c)
    \/ \E c \in Active : SealAvxKsEncX1(c)
    \/ \E c \in Active : SealAvxEncMsg(c)
    \/ \E c \in Active : SealAvxLastBlock(c)
    \/ \E c \in Active : SealAvxReturn(c)
    \/ \E c \in Active : OpenFallbackTag(c)
    \/ \E c \in Active : OpenFallbackKdf(c)
    \/ \E c \in Active : OpenFallbackCrypt(c)
    \/ \E c \in Active : OpenFallbackPolyval(c)
    \/ \E c \in Active : OpenFallbackReturn(c)
    \/ \E c \in Active : OpenAvxKdf(c)
    \/ \E c \in Active : OpenAvxAesKs(c)
    \/ \E c \in Active : OpenAvxAad(c)
    \/ \E c \in Active : OpenAvxHtable(c)
    \/ \E c \in Active : OpenAvxDec(c)
    \/ \E c \in Active : OpenAvxLastBlock(c)
    \/ \E c \in Active : OpenAvxFinish(c)

Spec == Init /\ [][Next]_vars

SpecConc == InitConc /\ [][Next]_vars

(***************************************************************************)
(* The accelerated path on lengths alone: what seal_aes_avxni and          *)
(* open_avx_aesni compute from in_out.len() and hand to the batched        *)
(* routines, for buffers up to AES_GCM_MAX_INPUT_LEN, which the enclosing  *)
(* AEAD layer admits.                                                      *)
(***************************************************************************)
\* message lengths, as limbs, up to the declared maximum
BigLens ==
    { m \in { << l1, l2, l3, 0 >> : l1 \in {0, 21, LIMB - 2 * BLOCK_LEN, LIMB - 1},
                                    l2 \in {0, LIMB - 1},
                                    l3 \in {0, 1, BLOCK_LEN - 1} } :
        usize_le(m, AES_GCM_MAX_INPUT_LEN) }

InitLen ==
    /\ InitWith(FALSE, {0}, {0})
    /\ impl = "AVX_AESNI"
    /\ \E m \in BigLens :
          length = [NoLength EXCEPT !.in_out_len = m]

\* seal_aes_avxni: whole_in_out_len as libc::c_uint
SealAvxEncMsgLen ==
    /\ length.op = "none"
    /\ LET whole_in_out_len ==
              usize_sub(length.in_out_len, usize_rem_block(length.in_out_len))
       IN length' = [length EXCEPT !.op = "seal",
                                   !.true_len = whole_in_out_len,
                                   !.handed = as_c_uint(whole_in_out_len)]
    /\ UNCHANGED << conc, impl, key, key0, nonce, aad, msg, wire, calls, pc, op, loc,
                    entry, hist >>

\* open_avx_aesni on a buffer of prefix, message and tag:
\* in_out_len = in_out.len() - TAG_LEN - in_prefix_len; in_out_len as libc::c_uint
OpenAvxDecLen ==
    /\ length.op = "none"
    /\ \E in_prefix_len \in Prefixes :
          LET in_out == usize_add(length.in_out_len, TAG_LEN + in_prefix_len)
              in_out_len == usize_sub(usize_sub(in_out, TAG_LEN), in_prefix_len)
          IN length' = [length EXCEPT !.op = "open",
                                      !.in_prefix_len = in_prefix_len,
                                      !.true_len = in_out_len,
                                      !.handed = as_c_uint(in_out_len)]
    /\ UNCHANGED << conc, impl, key, key0, nonce, aad, msg, wire, calls, pc, op, loc,
                    entry, hist >>

NextLen == SealAvxEncMsgLen \/ OpenAvxDecLen

SpecLen == InitLen /\ [][NextLen]_vars

(***************************************************************************)
(* What a finished call left behind.                                       *)
(***************************************************************************)
SealDone(c) == op[c] = "seal" /\ pc[c] = "done"

OpenDone(c) == op[c] = "open" /\ pc[c] = "done"

\* the length of the message an open call was handed
CiphertextLen(c) == Len(entry[c].in_out) - TAG_LEN - loc[c].in_prefix_len

\* the tag an open call was handed
ReceivedTag(c) == Slice(entry[c].in_out, Len(entry[c].in_out) - TAG_LEN, Len(entry[c].in_out))

\* an open call, at prefix offset 0, of exactly what this caller's last seal
\* produced
OpensSealed(c) ==
    /\ OpenDone(c)
    /\ entry[c].sealed
    /\ entry[c].tamper = "none"
    /\ loc[c].in_prefix_len = 0

(***************************************************************************)
(* C1. Round trip: opening, at prefix offset 0 and with the same key,      *)
(* nonce and AAD, the ciphertext and tag seal produced leaves the original *)
(* plaintext at the front of the buffer and returns the tag seal returned. *)
(***************************************************************************)
C1_RoundTrip ==
    \A c \in Callers :
        OpensSealed(c) =>
            /\ Slice(loc[c].in_out, 0, Len(msg[c])) = msg[c]
            /\ loc[c].ret = ReceivedTag(c)

(***************************************************************************)
(* C2. Path equivalence: what a finished call left in the buffer and       *)
(* returned is what the other execution path leaves and returns for the    *)
(* same key, nonce, AAD and buffer.                                        *)
(***************************************************************************)
\* the result of the call caller c made, had the host selected `path`
SealOn(path, c) ==
    IF path = "FALLBACK"
    THEN seal_fallback(entry[c].key, loc[c].nonce, loc[c].aad, entry[c].in_out)
    ELSE seal_aes_avxni(IF entry[c].key.aes_asm_key = None
                        THEN Key_new(entry[c].key.key, entry[c].key.variant, path)
                        ELSE entry[c].key,
                        loc[c].nonce, loc[c].aad, entry[c].in_out).l

OpenOn(path, c) ==
    IF path = "FALLBACK"
    THEN open_fallback(entry[c].key, loc[c].nonce, loc[c].aad,
                       loc[c].in_prefix_len, entry[c].in_out)
    ELSE open_avx_aesni(IF entry[c].key.aes_asm_key = None
                        THEN Key_new(entry[c].key.key, entry[c].key.variant, path)
                        ELSE entry[c].key,
                        loc[c].nonce, loc[c].aad, loc[c].in_prefix_len, entry[c].in_out)

OtherPath == IF impl = "FALLBACK" THEN "AVX_AESNI" ELSE "FALLBACK"

SameResult(l1, l2) == l1.in_out = l2.in_out /\ l1.ret = l2.ret

C2_PathEquivalence ==
    \A c \in Callers :
        /\ SealDone(c) => SameResult(loc[c], SealOn(OtherPath, c))
        /\ OpenDone(c) => SameResult(loc[c], OpenOn(OtherPath, c))

(***************************************************************************)
(* C3. Concurrent use of one Key: with two callers interleaved on the same *)
(* Key, each on its own buffer, every finished call has left in its buffer *)
(* and returned what the same call leaves and returns when it runs alone   *)
(* on the Key it was entered with.                                         *)
(***************************************************************************)
C3_ConcurrentCallsAsAlone ==
    \A c \in Callers :
        /\ SealDone(c) => SameResult(loc[c], SealOn(impl, c))
        /\ OpenDone(c) => SameResult(loc[c], OpenOn(impl, c))

(***************************************************************************)
(* C4. A Key is never mutated after construction: in every state the Key   *)
(* is the Key its construction left.                                       *)
(***************************************************************************)
C4_KeyNeverMutated == key = key0

(***************************************************************************)
(* C5. Open never signals an error.  As claimed: no open call, whatever    *)
(* the prefix offset and the buffer, ends in a panic or runs off the       *)
(* buffer.  As amended: an open call whose buffer holds at least the       *)
(* prefix offset plus the 16 bytes of a tag never panics and never runs    *)
(* off the buffer, each of its steps takes it to the next statement of     *)
(* its path up to the return, and what it returns is a 16-byte tag,        *)
(* whether or not that tag is the one the buffer carried.                  *)
(***************************************************************************)
Failed(c) == pc[c] \in {"panicked", "out_of_bounds"}

C5_OpenNeverFails == \A c \in Callers : op[c] = "open" => ~Failed(c)

WellFormedOpen(c) ==
    op[c] = "open" /\ well_formed(loc[c].in_prefix_len, entry[c].in_out)

\* the statements of an open call in program order, the return last
OpenOrder ==
    IF impl = "FALLBACK"
    THEN << "of_tag", "of_kdf", "of_crypt", "of_polyval", "of_return", "done" >>
    ELSE << "oa_kdf", "oa_aes_ks", "oa_aad", "oa_htable", "oa_dec", "oa_last_block",
            "oa_finish", "done" >>

OpenPosition(p) == CHOOSE i \in 1..Len(OpenOrder) : OpenOrder[i] = p

C5_OpenCompletesOnWellFormed ==
    /\ [](\A c \in Callers :
            WellFormedOpen(c) =>
                /\ \E i \in 1..Len(OpenOrder) : OpenOrder[i] = pc[c]
                /\ pc[c] = "done" =>
                      /\ Len(loc[c].ret) = TAG_LEN
                      /\ \A i \in 1..TAG_LEN : loc[c].ret[i] \in Byte)
    /\ [][\A c \in Callers :
            (WellFormedOpen(c) /\ pc[c] # "done" /\ pc'[c] # pc[c]) =>
                /\ \E i \in 1..Len(OpenOrder) : OpenOrder[i] = pc'[c]
                /\ OpenPosition(pc'[c]) = OpenPosition(pc[c]) + 1]_vars

\* an open call that returned a tag other than the one its buffer carried
C5_ReturnsMismatchingTag ==
    \E c \in Callers :
        /\ OpenDone(c)
        /\ entry[c].tamper = "flip_tag"
        /\ loc[c].ret # ReceivedTag(c)

(***************************************************************************)
(* C6. Ephemeral subkeys are zeroized on every exit: when a call has       *)
(* returned, the storage of the derived authentication subkey, of the      *)
(* derived encryption subkey and of the schedule expanded from it holds    *)
(* only zero bytes.                                                        *)
(***************************************************************************)
C6_SubkeysZeroizedOnReturn ==
    \A c \in Callers :
        pc[c] = "done" =>
            /\ AllZero(loc[c].auth_key_bytes)
            /\ AllZero(loc[c].enc_key_bytes)
            /\ AllZero(loc[c].auth_key)
            /\ AllZero(loc[c].enc_key)

(***************************************************************************)
(* C7. Accelerated-path working storage is zeroized when it goes out of    *)
(* scope: when a call has returned, CalculatedTag, HTable and the Counter  *)
(* of crypt_last_block hold only zero bytes.                               *)
(***************************************************************************)
C7_WorkingStorageZeroized ==
    \A c \in Callers :
        pc[c] = "done" =>
            /\ AllZero(loc[c].calculated_tag)
            /\ AllZero(loc[c].htable)
            /\ AllZero(loc[c].counter)

(***************************************************************************)
(* C8. Prefix-offset correctness: an open call with prefix offset k on a   *)
(* buffer whose ciphertext of length n starts at k has written to [0, n)   *)
(* the bytes, and returned the tag, that opening the same ciphertext and   *)
(* tag at prefix offset 0 writes and returns.                              *)
(***************************************************************************)
OpenAtOffset0(c) ==
    LET shifted == Slice(entry[c].in_out, loc[c].in_prefix_len, Len(entry[c].in_out))
    IN IF impl = "FALLBACK"
       THEN open_fallback(entry[c].key, loc[c].nonce, loc[c].aad, 0, shifted)
       ELSE open_avx_aesni(entry[c].key, loc[c].nonce, loc[c].aad, 0, shifted)

C8_PrefixOffsetCorrect ==
    \A c \in Callers :
        OpenDone(c) =>
            /\ Slice(loc[c].in_out, 0, CiphertextLen(c))
                  = Slice(OpenAtOffset0(c).in_out, 0, CiphertextLen(c))
            /\ loc[c].ret = OpenAtOffset0(c).ret

\* an open call at a nonzero offset of whole blocks followed by a partial one
C8_OpenedAtOffset ==
    \E c \in Callers :
        /\ OpenDone(c)
        /\ loc[c].in_prefix_len > 0
        /\ CiphertextLen(c) > BLOCK_LEN
        /\ CiphertextLen(c) % BLOCK_LEN # 0

(***************************************************************************)
(* C9. The counter seed of seal.  As claimed: what seal hands the          *)
(* keystream engine as counter seed is the tag value before the one-shot   *)
(* block encryption.  As amended: on both paths the seed is the final tag, *)
(* the block encryption of that value under the derived encryption key and *)
(* the tag seal returns, and the first counter block is the final tag with *)
(* the top bit of its last byte set: the first ciphertext bytes are the    *)
(* first plaintext bytes XOR the encryption of that block.                 *)
(***************************************************************************)
\* the subkeys the call of caller c derives from the Key it was entered with
DerivedKeys(c) ==
    IF impl = "FALLBACK"
    THEN GcmSivContext_kdf(entry[c].key, loc[c].nonce)
    ELSE GcmSivAsmContext_kdf(entry[c].key, loc[c].nonce)

\* the schedule expanded from the derived encryption subkey
DerivedSchedule(c) ==
    aes_ks(entry[c].key.variant,
           Slice(DerivedKeys(c).enc_key, 0, get_encryption_key_size(entry[c].key.variant)))

\* seal has handed the keystream engine its seed
SealSeeded(c) == op[c] = "seal" /\ loc[c].seed # << >>

C9_SeedIsPreFinalTag ==
    \A c \in Callers : SealSeeded(c) => loc[c].seed = loc[c].polyval

C9_SeedIsFinalTag ==
    \A c \in Callers :
        /\ SealSeeded(c) =>
              /\ loc[c].seed = loc[c].tag
              /\ loc[c].seed = ecb_enc_block(DerivedSchedule(c), loc[c].polyval)
        /\ SealDone(c) =>
              LET n == IF Len(msg[c]) < BLOCK_LEN THEN Len(msg[c]) ELSE BLOCK_LEN
                  first == ecb_enc_block(DerivedSchedule(c), initial_counter(loc[c].ret))
              IN /\ loc[c].seed = loc[c].ret
                 /\ Slice(loc[c].in_out, 0, n)
                       = XorSeq(Slice(entry[c].in_out, 0, n), Slice(first, 0, n))

\* a finished seal of more than one block whose final tag differs from the
\* value it was encrypted from
C9_SealedWithFinalTag ==
    \E c \in Callers :
        /\ SealDone(c)
        /\ Len(msg[c]) > BLOCK_LEN
        /\ loc[c].seed # loc[c].polyval

(***************************************************************************)
(* C10. Step ordering.  As claimed: every call derives the subkeys first;  *)
(* seal then computes the tag over the plaintext and only then encrypts;   *)
(* open then decrypts with the received tag as counter seed and only then  *)
(* hashes anything into the tag.  As amended: the same for seal and for    *)
(* open on the portable path; on the accelerated path open derives the     *)
(* subkeys first, hashes the AAD before it decrypts, and decrypts every    *)
(* message byte, with the received tag as counter seed, before it folds    *)
(* that byte into the tag, the partial final block after the whole blocks  *)
(* have been folded in.  On both paths what open has folded into the tag   *)
(* is recovered plaintext, all of it once the tag is final.                *)
(***************************************************************************)
Hashing == {"hash_aad", "hash_msg"}

\* in history h every event of A comes before every event of B
AllBefore(h, A, B) ==
    \A i, j \in 1..Len(h) : (h[i] \in A /\ h[j] \in B) => i < j

\* the subkeys are derived once, before anything else
KdfFirst(h) ==
    h # << >> => (h[1] = "kdf" /\ \A i \in 2..Len(h) : h[i] # "kdf")

\* the plaintext the keystream engine recovers from the ciphertext an open
\* call was handed, seeded with the tag it was handed
Recovered(c) ==
    gcm_siv_crypt(Slice(entry[c].in_out, loc[c].in_prefix_len,
                        Len(entry[c].in_out) - TAG_LEN),
                  0, ReceivedTag(c), DerivedSchedule(c))

SealOrder(c) ==
    /\ AllBefore(hist[c], Hashing, {"crypt", "tag_final"})
    /\ AllBefore(hist[c], {"tag_final"}, {"crypt"})
    /\ (\E i \in 1..Len(hist[c]) : hist[c][i] = "hash_msg") => loc[c].hashed = entry[c].in_out

\* what open decrypts with and what it hashes
OpenOverPlaintext(c) ==
    /\ loc[c].seed # << >> => loc[c].seed = ReceivedTag(c)
    /\ loc[c].hashed = Slice(Recovered(c), 0, Len(loc[c].hashed))
    /\ loc[c].hashed = Slice(loc[c].in_out, 0, Len(loc[c].hashed))
    /\ AllBefore(hist[c], Hashing \cup {"crypt"}, {"tag_final"})
    /\ (\E i \in 1..Len(hist[c]) : hist[c][i] = "tag_final") =>
          Len(loc[c].hashed) = CiphertextLen(c)

C10_DecryptThenHash ==
    \A c \in Callers :
        /\ KdfFirst(hist[c])
        /\ op[c] = "seal" => SealOrder(c)
        /\ WellFormedOpen(c) =>
              /\ OpenOverPlaintext(c)
              /\ AllBefore(hist[c], {"crypt"}, Hashing)

C10_StepOrder ==
    \A c \in Callers :
        /\ KdfFirst(hist[c])
        /\ op[c] = "seal" => SealOrder(c)
        /\ WellFormedOpen(c) =>
              /\ OpenOverPlaintext(c)
              /\ \A j \in 1..Len(hist[c]) :
                    hist[c][j] = "hash_msg" => \E i \in 1..(j - 1) : hist[c][i] = "crypt"
              /\ impl = "FALLBACK" => AllBefore(hist[c], {"crypt"}, Hashing)
              /\ impl = "AVX_AESNI" =>
                    /\ AllBefore(hist[c], {"hash_aad"}, {"crypt", "hash_msg"})
                    /\ \A i \in 1..(Len(hist[c]) - 1) :
                          hist[c][i] = "crypt" => hist[c][i + 1] = "hash_msg"

\* an accelerated open, of whole blocks and a partial one under a nonempty
\* AAD, that has made its tag final
C10_OpenedInSteps ==
    \E c \in Callers :
        /\ OpenDone(c)
        /\ impl = "AVX_AESNI"
        /\ Len(loc[c].aad) > 0
        /\ CiphertextLen(c) > BLOCK_LEN
        /\ CiphertextLen(c) % BLOCK_LEN # 0
        /\ hist[c] = << "kdf", "hash_aad", "crypt", "hash_msg", "crypt", "hash_msg",
                        "tag_final" >>

(***************************************************************************)
(* C11. The partial-block handler does not alias destructively: the step   *)
(* that runs crypt_last_block on a message of n bytes at prefix offset k   *)
(* leaves, at each output index (n - n mod 16) + j with j < n mod 16, the  *)
(* byte the buffer held at input index (n - n mod 16) + k + j before the   *)
(* step XOR keystream byte j, and leaves every other byte of the buffer as *)
(* it was.                                                                 *)
(***************************************************************************)
\* the length of the message the call of caller c works on
MessageLen(c) ==
    IF op[c] = "seal" THEN Len(loc[c].in_out)
    ELSE Len(loc[c].in_out) - TAG_LEN - loc[c].in_prefix_len

\* caller c is about to take the step that holds crypt_last_block
AtLastBlock(c) == pc[c] \in {"sa_last_block", "oa_last_block"}

C11_TailNotAliased ==
    [][\A c \in Callers :
          (AtLastBlock(c) /\ pc'[c] \in {"sa_return", "oa_finish"}) =>
              LET n == MessageLen(c)
                  k == loc[c].in_prefix_len
                  whole == n - (n % BLOCK_LEN)
              IN /\ Len(loc'[c].in_out) = Len(loc[c].in_out)
                 /\ \A i \in 0..(Len(loc[c].in_out) - 1) :
                       loc'[c].in_out[i + 1] =
                          IF whole <= i /\ i < n
                          THEN Xor(loc[c].in_out[i + k + 1], loc'[c].counter[(i - whole) + 1])
                          ELSE loc[c].in_out[i + 1]]_vars

\* an accelerated open past crypt_last_block whose tail is longer than the
\* nonzero prefix offset, so that reads and writes of the loop overlap
C11_OverlappingTailDone ==
    \E c \in Callers :
        /\ op[c] = "open"
        /\ pc[c] = "oa_finish"
        /\ loc[c].in_prefix_len > 0
        /\ MessageLen(c) % BLOCK_LEN > loc[c].in_prefix_len

(***************************************************************************)
(* C12. Partial-block counter arithmetic: the block crypt_last_block       *)
(* encrypts for the final 1-15 bytes is the 16-byte tag with bit 7 of byte *)
(* 15 set and with its first 4 bytes, read as a little-endian 32-bit       *)
(* integer, replaced by that integer plus floor(message length / 16)       *)
(* modulo 2^32; bytes 4..15 are otherwise as in the tag.                   *)
(***************************************************************************)
\* the tag crypt_last_block is handed in the call of caller c
LastBlockTag(c) == IF op[c] = "seal" THEN loc[c].tag ELSE ReceivedTag(c)

\* the schedule crypt_last_block is handed in the call of caller c
LastBlockKey(c) == IF op[c] = "seal" THEN key.aes_asm_key ELSE loc[c].enc_key

\* (v + blocks) mod 2^32 of the claim, v the first four bytes of t, computed
\* on two 16-bit halves
Add32(t, blocks) ==
    LET lo == t[1] + 256 * t[2]
        hi == t[3] + 256 * t[4]
        sumlo == lo + (blocks % 65536)
        newlo == sumlo % 65536
        newhi == (hi + (blocks \div 65536) + (sumlo \div 65536)) % 65536
    IN << newlo % 256, newlo \div 256, newhi % 256, newhi \div 256 >>

ClaimedCounter(tag, n) ==
    LET t == [tag EXCEPT ![16] = (@ % 128) + 128]
    IN Add32(t, n \div BLOCK_LEN) \o Seq1([i \in 1..(BLOCK_LEN - 4) |-> t[i + 4]])

\* caller c is right past the step that holds crypt_last_block, which ran
PastLastBlock(c) ==
    /\ pc[c] \in {"sa_return", "oa_finish"}
    /\ MessageLen(c) % BLOCK_LEN # 0

C12_LastBlockCounter ==
    \A c \in Callers :
        PastLastBlock(c) =>
            /\ last_block_counter(LastBlockTag(c), MessageLen(c))
                  = ClaimedCounter(LastBlockTag(c), MessageLen(c))
            /\ loc[c].counter
                  = ecb_enc_block(LastBlockKey(c),
                                  ClaimedCounter(LastBlockTag(c), MessageLen(c)))

\* crypt_last_block has run on a tag whose low 32 bits were at their
\* maximum, after at least one whole block: the addition wrapped
C12_CounterWrapped ==
    \E c \in Callers :
        /\ PastLastBlock(c)
        /\ op[c] = "open"
        /\ entry[c].tamper = "max_counter"
        /\ MessageLen(c) >= BLOCK_LEN
        /\ Slice(LastBlockTag(c), 0, 4) = << 255, 255, 255, 255 >>

(***************************************************************************)
(* C13. No length truncation on the accelerated path: for every message    *)
(* length up to AES_GCM_MAX_INPUT_LEN, the length seal_aes_avxni hands the *)
(* batched encrypt routines (the message length less its remainder modulo  *)
(* 16) and the length open_avx_aesni hands the decrypt routine (the        *)
(* plaintext length), once converted to a 32-bit unsigned integer, is the  *)
(* true length.                                                            *)
(***************************************************************************)
C13_NoLengthTruncation ==
    length.op # "none" => c_uint_value(length.handed) = length.true_len

\* a seal of a whole number of blocks, 2^32 bytes or more and within the
\* declared maximum, has handed its length on
C13_SealedFourGiB ==
    /\ length.op = "seal"
    /\ usize_le(<< 0, 0, 1, 0 >>, length.in_out_len)
    /\ usize_le(length.in_out_len, AES_GCM_MAX_INPUT_LEN)
    /\ length.true_len = length.in_out_len

====
